---- MODULE Spec2Model ----
(***************************************************************************)
(* A model of the immigration-assistant document pipeline:                 *)
(*   src/src/chunk_parsed_to_jsonl.py  (text cleaning, chunk packing,      *)
(*                                      chunk-record assembly)             *)
(*   src/src/parse_html_to_json.py     (the HTML parsing batch)            *)
(*   src/src/rag_call.py, retrieve.py, answer_llm.py (query time)          *)
(*                                                                         *)
(* Strings are sequences of one-character strings.  In the chunk packer a  *)
(* paragraph is the sequence of its words (what p.split() returns): the    *)
(* packer never looks inside a word, so words are numbered occurrences.   *)
(***************************************************************************)
EXTENDS Integers, Sequences, FiniteSets, TLC

VARIABLES
    \* make_chunks_from_paragraphs
    paras,        \* the argument: a sequence of paragraphs
    cfg,          \* target_words, max_words, overlap_words
    pi,           \* index of the paragraph the for loop is at
    cur,          \* the accumulator: a sequence of paragraphs
    cur_words,    \* its running word count
    chunks,       \* the chunks appended so far
    words,        \* hard split: p.split()
    start,        \* hard split: the window start
    carry,        \* ghost: per chunk, how many leading words were carried over
    cur_carry,    \* ghost: how many words of cur are a carried-over seed
    pc,           \* position in make_chunks_from_paragraphs
    \* chunk_parsed_to_jsonl.main
    parsed_files, \* the source_ids of the parsed documents, in sorted file order
    meta,         \* the source_ids of sources.csv
    di,           \* index of the document the loop is at
    si,           \* the number of sections of that document gone through
    sec,          \* the section gone through last
    chunk_store,  \* the records written to the chunk store (out)
    total_chunks,
    skipped_sections,
    cleaned_sections,
    mpc,          \* position in main
    \* dedupe_paragraphs
    dd_text,      \* the argument (text)
    once,         \* dedupe_paragraphs(text)
    twice,        \* dedupe_paragraphs(dedupe_paragraphs(text))
    dpc,
    \* parse_html_to_json.main
    columns_ok,   \* sources.csv has the needed columns
    rows,         \* the rows of sources.csv
    raw,          \* per source_id: the state of its file in the raw HTML store
    html_df,      \* the webpage rows
    ri,           \* index of the row the loop is at
    parsed_store, \* the source_ids whose parsed-document file was written
    log,          \* the [OK] and [FAIL] lines printed
    ppc,          \* position in main
    \* rag_call
    index_meta,   \* the records of the metadata store, in index order
    index_ids,    \* the ids index.search returns
    llm_status,   \* the status code of the endpoint's response
    llm_reply,    \* the message content of the endpoint's response
    results,      \* what retrieve.search returns
    chunks_for_llm,
    called_with,  \* the chunk sequences answer_question was called with
    answer,
    rpc,          \* position in rag_call
    \* parse_html_to_json.extract_sections
    container,    \* the elements of the container, in document order
    el,           \* index of the element the for loop is at
    sections,     \* the sections appended so far
    current,      \* the open section: heading and text_parts
    xpc           \* position in extract_sections

packVars == <<paras, cfg, pi, cur, cur_words, chunks, words, start, carry, cur_carry, pc>>
mainVars == <<parsed_files, meta, di, si, sec, chunk_store, total_chunks, skipped_sections,
              cleaned_sections, mpc>>
dedupeVars == <<dd_text, once, twice, dpc>>
parseVars == <<columns_ok, rows, raw, html_df, ri, parsed_store, log, ppc>>
ragVars == <<index_meta, index_ids, llm_status, llm_reply, results, chunks_for_llm,
             called_with, answer, rpc>>

extractVars == <<container, el, sections, current, xpc>>

vars == <<packVars, mainVars, dedupeVars, parseVars, ragVars, extractVars>>

\* the parts of the program that a specification leaves out stay as they are
MainIdle ==
    /\ parsed_files = <<>> /\ meta = {} /\ di = 0 /\ si = 0 /\ sec = <<>> /\ chunk_store = <<>>
    /\ total_chunks = 0 /\ skipped_sections = 0 /\ cleaned_sections = 0 /\ mpc = "idle"
DedupeIdle == dd_text = <<>> /\ once = <<>> /\ twice = <<>> /\ dpc = "idle"
ParseIdle ==
    /\ columns_ok = TRUE /\ rows = <<>> /\ raw = <<>> /\ html_df = <<>> /\ ri = 0
    /\ parsed_store = {} /\ log = <<>> /\ ppc = "idle"
RagIdle ==
    /\ index_meta = <<>> /\ index_ids = <<>> /\ llm_status = 0 /\ llm_reply = ""
    /\ results = <<>> /\ chunks_for_llm = <<>> /\ called_with = <<>> /\ answer = ""
    /\ rpc = "idle"
ExtractIdle ==
    container = <<>> /\ el = 0 /\ sections = <<>> /\ current = <<>> /\ xpc = "idle"
PackIdle ==
    /\ paras = <<>> /\ cfg = <<>> /\ pi = 0 /\ cur = <<>> /\ cur_words = 0 /\ chunks = <<>>
    /\ words = <<>> /\ start = 0 /\ carry = <<>> /\ cur_carry = 0 /\ pc = "idle"

-----------------------------------------------------------------------------
(* Bounds of the packer's inputs *)
MaxParas == 3
MaxParaWords == 6
MaxCfgWords == 4
\* the longest paragraph of the one-paragraph runs under the default sizes
ScenarioMaxWords == 1200

(* Program constants *)
TARGET_WORDS == 350
MAX_WORDS == 500
OVERLAP_WORDS == 60

Min(a, b) == IF a < b THEN a ELSE b
Max(a, b) == IF a > b THEN a ELSE b

-----------------------------------------------------------------------------
(* Strings: sequences of one-character strings over ASCII letters, digits, *)
(* punctuation and white space.  NBSP, LDQUO and RDQUO stand for U+00A0,   *)
(* U+201C and U+201D.  Pattern alternatives that need a letter outside     *)
(* this alphabet cannot match a string of the model and are left out.      *)

NBSP == "nbsp"
LDQUO == "ldquo"
RDQUO == "rdquo"

LowerLetters == <<"a", "b", "c", "d", "e", "f", "g", "h", "i", "j", "k", "l", "m", "n", "o", "p", "q", "r", "s", "t", "u", "v", "w", "x", "y", "z">>
UpperLetters == <<"A", "B", "C", "D", "E", "F", "G", "H", "I", "J", "K", "L", "M", "N", "O", "P", "Q", "R", "S", "T", "U", "V", "W", "X", "Y", "Z">>
DigitChars == <<"0", "1", "2", "3", "4", "5", "6", "7", "8", "9">>

Range(s) == {s[i] : i \in 1..Len(s)}
Idx(s) == [i \in 1..Len(s) |-> i]
SetMin(S) == CHOOSE x \in S : \A y \in S : x <= y
SetMax(S) == CHOOSE x \in S : \A y \in S : x >= y

SpaceChars == {" ", "\t", "\n", "\r", NBSP}
SafeChars == Range(LowerLetters) \cup Range(DigitChars)
WordChars == Range(LowerLetters) \cup Range(UpperLetters) \cup Range(DigitChars) \cup {"_"}

\* \s, str.isspace()
IsSpace(c) == c \in SpaceChars
\* \w
IsWordChar(c) == c \in WordChars

\* str.lower()
lower_char(c) ==
    IF \E i \in 1..Len(UpperLetters) : UpperLetters[i] = c
    THEN LowerLetters[CHOOSE i \in 1..Len(UpperLetters) : UpperLetters[i] = c]
    ELSE c
lower(s) == [i \in 1..Len(s) |-> lower_char(s[i])]

\* s.strip(): without the leading and trailing characters for which P holds
StripOf(s, P(_)) ==
    LET k == SelectSeq(Idx(s), LAMBDA i : ~P(s[i]))
    IN  IF k = <<>> THEN <<>> ELSE SubSeq(s, k[1], k[Len(k)])
Strip(s) == StripOf(s, IsSpace)

\* re.sub(r"P+", r, s): every maximal run of P-characters becomes one r
CollapseRuns(s, P(_), r) ==
    LET k == SelectSeq(Idx(s), LAMBDA i : ~(P(s[i]) /\ i > 1 /\ P(s[i - 1])))
    IN  [j \in 1..Len(k) |-> IF P(s[k[j]]) THEN r ELSE s[k[j]]]

\* s.replace(a, b) for single characters
ReplaceChar(s, a, b) == [i \in 1..Len(s) |-> IF s[i] = a THEN b ELSE s[i]]

\* the maximal runs of characters for which P does not hold: s.split() for P = IsSpace
Runs(s, P(_)) ==
    LET n == Len(s)
        b == SelectSeq(Idx(s), LAMBDA i : ~P(s[i]) /\ (i = 1 \/ P(s[i - 1])))
        e == SelectSeq(Idx(s), LAMBDA i : ~P(s[i]) /\ (i = n \/ P(s[i + 1])))
    IN  [k \in 1..Len(b) |-> SubSeq(s, b[k], e[k])]
Words(s) == Runs(s, IsSpace)

\* s.split(c), the empty pieces kept
SplitOn(s, c) ==
    LET at == SelectSeq(Idx(s), LAMBDA i : s[i] = c)
    IN  [k \in 1..(Len(at) + 1) |->
            SubSeq(s, IF k = 1 THEN 1 ELSE at[k - 1] + 1,
                      IF k <= Len(at) THEN at[k] - 1 ELSE Len(s))]

\* sep.join(ps)
RECURSIVE JoinWith(_, _)
JoinWith(ps, sep) ==
    IF ps = <<>> THEN <<>>
    ELSE IF Len(ps) = 1 THEN ps[1]
    ELSE ps[1] \o sep \o JoinWith(Tail(ps), sep)

\* [p.strip() for p in ps if p.strip()]
StrippedNonEmpty(ps) ==
    LET k == SelectSeq(Idx(ps), LAMBDA i : Strip(ps[i]) # <<>>)
    IN  [j \in 1..Len(k) |-> Strip(ps[k[j]])]

\* the literal l stands in s at position i (re.IGNORECASE: l is lower case)
LitAt(s, i, l) ==
    /\ i >= 1 /\ i + Len(l) - 1 <= Len(s)
    /\ \A k \in 1..Len(l) : lower_char(s[i + k - 1]) = l[k]

\* \b between positions i - 1 and i
WordBoundary(s, i) ==
    (i - 1 \in 1..Len(s) /\ IsWordChar(s[i - 1])) # (i \in 1..Len(s) /\ IsWordChar(s[i]))

\* re.search(l, s)
SearchLit(s, l) == \E i \in 1..Len(s) : LitAt(s, i, l)
\* re.search(r"\bl\b", s)
SearchWord(s, l) ==
    \E i \in 1..Len(s) : LitAt(s, i, l) /\ WordBoundary(s, i) /\ WordBoundary(s, i + Len(l))

\* the first position at or after i that holds no white space (Len(s) + 1: none)
SkipSpace(s, i) ==
    CHOOSE j \in i..(Len(s) + 1) :
        /\ j = Len(s) + 1 \/ ~IsSpace(s[j])
        /\ \A k \in i..(j - 1) : IsSpace(s[k])
\* the first position at or after i that holds white space (Len(s) + 1: none)
SkipToken(s, i) ==
    CHOOSE j \in i..(Len(s) + 1) :
        /\ j = Len(s) + 1 \/ IsSpace(s[j])
        /\ \A k \in i..(j - 1) : ~IsSpace(s[k])

-----------------------------------------------------------------------------
(* chunk_parsed_to_jsonl.py: cleaning *)

\* the patterns of the form \bword\b ("s?" written out as two words)
JUNK_HEADING_WORDS ==
    <<<<"s", "i", "t", "e", " ", "n", "a", "v", "i", "g", "a", "t", "i", "o", "n">>,
      <<"s", "e", "r", "v", "i", "c", "e", " ", "m", "e", "n", "u">>,
      <<"m", "a", "i", "n", " ", "m", "e", "n", "u">>,
      <<"y", "o", "u", " ", "a", "r", "e", " ", "h", "e", "r", "e">>,
      <<"s", "i", "t", "e", "m", "a", "p">>,
      <<"s", "e", "a", "r", "c", "h">>,
      <<"p", "a", "g", "e", " ", "f", "u", "n", "c", "t", "i", "o", "n">>,
      <<"p", "a", "g", "e", " ", "f", "u", "n", "c", "t", "i", "o", "n", "s">>,
      <<"l", "i", "n", "k", " ", "t", "o", " ", "s", "o", "c", "i", "a", "l", " ", "m", "e", "d", "i", "a">>,
      <<"n", "o", "t", "e", " ", "o", "n", " ", "t", "h", "e", " ", "u", "s", "e", " ", "o", "f", " ", "c", "o", "o", "k", "i", "e", "s">>,
      <<"c", "o", "o", "k", "i", "e">>,
      <<"c", "o", "o", "k", "i", "e", "s">>,
      <<"i", "m", "p", "r", "i", "n", "t">>,
      <<"d", "a", "t", "a", " ", "p", "r", "o", "t", "e", "c", "t", "i", "o", "n">>,
      <<"a", "c", "c", "e", "s", "s", "i", "b", "i", "l", "i", "t", "y">>,
      <<"u", "s", "e", "r", " ", "n", "o", "t", "e">>,
      <<"u", "s", "e", "r", " ", "n", "o", "t", "e", "s">>>>
\* the patterns of the form ^word$
JUNK_HEADING_EXACT ==
    <<<<"s", "e", "r", "v", "i", "c", "e">>,
      <<"t", "o", "p", "i", "c", "s">>,
      <<"t", "e", "x", "t", "s", " ", "a", "n", "d", " ", "a", "r", "t", "i", "c", "l", "e", "s">>,
      <<"f", "u", "r", "t", "h", "e", "r", " ", "i", "n", "f", "o", "r", "m", "a", "t", "i", "o", "n">>,
      <<"l", "i", "n", "k", "s">>>>
\* JUNK_HEADING_RE.search(h)
JUNK_HEADING_RE(h) ==
    \/ \E n \in 1..Len(JUNK_HEADING_WORDS) : SearchWord(h, JUNK_HEADING_WORDS[n])
    \/ \E n \in 1..Len(JUNK_HEADING_EXACT) : h = JUNK_HEADING_EXACT[n]

\* all of the form \bword\b ("submen[u|ü]" written out)
JUNK_TEXT_WORDS ==
    <<<<"a", "c", "c", "e", "p", "t", " ", "c", "o", "o", "k", "i", "e", "s">>,
      <<"c", "o", "o", "k", "i", "e", "s", " ", "m", "a", "k", "e", " ", "i", "t", " ", "e", "a", "s", "i", "e", "r">>,
      <<"g", "o", " ", "t", "o", ":">>,
      <<"p", "r", "i", "n", "t", " ", "p", "a", "g", "e">>,
      <<"s", "u", "b", "m", "e", "n", "u">>,
      <<"s", "u", "b", "m", "e", "n", "|">>,
      <<"f", "a", "c", "e", "b", "o", "o", "k">>,
      <<"i", "n", "s", "t", "a", "g", "r", "a", "m">>,
      <<"l", "i", "n", "k", "e", "d", "i", "n">>,
      <<"t", "h", "r", "e", "a", "d", "s">>,
      <<"b", "l", "u", "e", "s", "k", "y">>,
      <<"m", "a", "s", "t", "o", "d", "o", "n">>,
      <<"x", "i", "n", "g">>,
      <<"v", "i", "m", "e", "o">>,
      <<"i", "m", "p", "r", "i", "n", "t">>,
      <<"d", "a", "t", "a", " ", "p", "r", "o", "t", "e", "c", "t", "i", "o", "n">>,
      <<"a", "c", "c", "e", "s", "s", "i", "b", "i", "l", "i", "t", "y">>,
      <<"s", "i", "t", "e", "m", "a", "p">>,
      <<"s", "e", "r", "v", "i", "c", "e", " ", "f", "o", "r", " ", "c", "i", "t", "i", "z", "e", "n", "s">>,
      <<"s", "e", "r", "v", "i", "c", "e", " ", "f", "o", "r", " ", "o", "t", "h", "e", "r", " ", "a", "u", "t", "h", "o", "r", "i", "t", "i", "e", "s">>,
      <<"a", "n", "n", "u", "a", "l", " ", "r", "e", "p", "o", "r", "t">>,
      <<"f", "r", "e", "e", "d", "o", "m", " ", "o", "f", " ", "m", "o", "v", "e", "m", "e", "n", "t", " ", "m", "o", "n", "i", "t", "o", "r", "i", "n", "g">>>>
\* JUNK_TEXT_RE.search(t)
JUNK_TEXT_RE(t) == \E n \in 1..Len(JUNK_TEXT_WORDS) : SearchWord(t, JUNK_TEXT_WORDS[n])

LANG_SWITCH_WORDS == <<<<"d", "e", "u", "t", "s", "c", "h">>, <<"e", "n", "g", "l", "i", "s", "h">>>>
\* len(LANG_SWITCH_RE.findall(ln)): the alternatives cannot overlap each other
LangHits(ln) ==
    Cardinality({i \in 1..Len(ln) :
                    \E n \in 1..Len(LANG_SWITCH_WORDS) : LitAt(ln, i, LANG_SWITCH_WORDS[n])})

clean_text(s) == Strip(CollapseRuns(ReplaceChar(s, NBSP, " "), IsSpace, " "))

IsUnsafe(c) == c \notin SafeChars
IsUnderscore(c) == c = "_"
slugify(s) ==
    LET t == StripOf(CollapseRuns(lower(s), IsUnsafe, "_"), IsUnderscore)
    IN  IF t = <<>> THEN <<"m", "a", "i", "n">> ELSE t

heading_is_junk(heading) ==
    LET h == lower(clean_text(heading))
    IN  h = <<>> \/ JUNK_HEADING_RE(h)

\* .replace("\r\n", "\n").replace("\r", "\n")
NormalizeNewlines(t) ==
    LET k == SelectSeq(Idx(t), LAMBDA i : ~(t[i] = "\r" /\ i < Len(t) /\ t[i + 1] = "\n"))
    IN  [j \in 1..Len(k) |-> IF t[k[j]] = "\r" THEN "\n" ELSE t[k[j]]]

IsBlank(c) == c \in {" ", "\t"}
IsNewline(c) == c = "\n"

LineStart(t, i) == i = 1 \/ t[i - 1] = "\n"

\* the last position of the match of ^\s*https?://\S+\s*$ that starts at i (0: no match)
UrlLineEnd(t, i) ==
    LET j == SkipSpace(t, i)
        p == IF LitAt(t, j, <<"h", "t", "t", "p", "s", ":", "/", "/">>) THEN j + 8
             ELSE IF LitAt(t, j, <<"h", "t", "t", "p", ":", "/", "/">>) THEN j + 7 ELSE 0
    IN  IF p = 0 \/ p > Len(t) \/ IsSpace(t[p]) THEN 0
        ELSE LET k  == SkipToken(t, p)
                 r  == SkipSpace(t, k)
                 nl == {x \in k..(r - 1) : t[x] = "\n"}
             IN  IF r = Len(t) + 1 THEN Len(t)
                 ELSE IF nl # {} THEN SetMax(nl) - 1
                 ELSE 0

\* re.sub(r"^\s*https?://\S+\s*$", "", t, flags=re.MULTILINE), scanning from position from
RECURSIVE RemoveUrlLines(_, _)
RemoveUrlLines(t, from) ==
    LET at == {i \in from..Len(t) : LineStart(t, i) /\ UrlLineEnd(t, i) # 0}
    IN  IF at = {} THEN SubSeq(t, from, Len(t))
        ELSE SubSeq(t, from, SetMin(at) - 1) \o RemoveUrlLines(t, UrlLineEnd(t, SetMin(at)) + 1)

\* re.sub(r"^.*l.*$", "", t, flags=re.IGNORECASE | re.MULTILINE)
RemoveLinesWith(t, l) ==
    LET ls == SplitOn(t, "\n")
    IN  JoinWith([k \in 1..Len(ls) |-> IF SearchLit(ls[k], l) THEN <<>> ELSE ls[k]], <<"\n">>)

\* the test of the loop over the lines: the line is kept
KeepLine(ln) ==
    /\ ~(LangHits(ln) >= 1 /\ Len(ln) < 120 /\ LangHits(ln) >= 3)
    /\ ~LitAt(ln, SkipSpace(ln, 1), <<"g", "o", " ", "t", "o", ":">>)

\* re.sub(r"\n{3,}", "\n\n", t)
CollapseNewlines(t) ==
    LET k == SelectSeq(Idx(t), LAMBDA i : ~(i > 2 /\ t[i] = "\n" /\ t[i - 1] = "\n" /\ t[i - 2] = "\n"))
    IN  [j \in 1..Len(k) |-> t[k[j]]]

strip_inline_junk(text) ==
    IF text = <<>> THEN <<>>
    ELSE LET t1 == ReplaceChar(ReplaceChar(text, LDQUO, "\""), RDQUO, "\"")
             t2 == CollapseRuns(NormalizeNewlines(t1), IsBlank, " ")
             t3 == RemoveUrlLines(t2, 1)
             t4 == RemoveLinesWith(t3, <<"c", "o", "o", "k", "i", "e", "s", " ", "m", "a", "k", "e", " ", "i", "t", " ", "e", "a", "s", "i", "e", "r">>)
             t5 == RemoveLinesWith(t4, <<"a", "c", "c", "e", "p", "t", " ", "c", "o", "o", "k", "i", "e", "s">>)
             lines == StrippedNonEmpty(SplitOn(t5, "\n"))
             kept == SelectSeq(lines, KeepLine)
         IN  Strip(CollapseNewlines(JoinWith(kept, <<"\n">>)))

\* the last position of the match of \n\s*\n that starts at i (0: no match)
BlankLineEnd(t, i) ==
    IF t[i] # "\n" THEN 0
    ELSE LET r  == SkipSpace(t, i + 1)
             nl == {x \in (i + 1)..(r - 1) : t[x] = "\n"}
         IN  IF nl = {} THEN 0 ELSE SetMax(nl)

\* re.split(r"\n\s*\n", t), scanning from position from
RECURSIVE BlankLineSplit(_, _)
BlankLineSplit(t, from) ==
    LET at == {i \in from..Len(t) : BlankLineEnd(t, i) # 0}
    IN  IF at = {} THEN <<SubSeq(t, from, Len(t))>>
        ELSE <<SubSeq(t, from, SetMin(at) - 1)>> \o BlankLineSplit(t, BlankLineEnd(t, SetMin(at)) + 1)

DedupeKeyCaseSensitive(p) == CollapseRuns(p, IsSpace, " ")
\* key = re.sub(r"\s+", " ", p.lower())
DedupeKey(p) == CollapseRuns(lower(p), IsSpace, " ")

\* for p in paras: if key in seen: continue; seen.add(key); out.append(p)
RECURSIVE DedupeLoop(_, _, _)
DedupeLoop(ps, seen, out) ==
    IF ps = <<>> THEN out
    ELSE IF DedupeKey(Head(ps)) \in seen THEN DedupeLoop(Tail(ps), seen, out)
    ELSE DedupeLoop(Tail(ps), seen \cup {DedupeKey(Head(ps))}, Append(out, Head(ps)))

\* paras = [p.strip() for p in re.split(r"\n\s*\n", text) if p.strip()]
BlankLineParas(text) == StrippedNonEmpty(BlankLineSplit(text, 1))

dedupe_paragraphs(text) ==
    Strip(JoinWith(DedupeLoop(BlankLineParas(text), {}, <<>>), <<"\n", "\n">>))

section_is_junk_text_only(heading, text) ==
    LET t == lower(clean_text(text))
    IN  t = <<>> \/ JUNK_TEXT_RE(t)
section_is_junk(heading, text) ==
    \/ heading_is_junk(heading)
    \/ LET t == lower(clean_text(text))
       IN  t = <<>> \/ JUNK_TEXT_RE(t)

IsSentenceEnd(c) == c \in {".", "?", "!"}

\* re.split(r"(?<=[\.\?\!])\s+", t)
SentenceSplit(t) ==
    LET at == SelectSeq(Idx(t), LAMBDA i : IsSpace(t[i]) /\ i > 1 /\ IsSentenceEnd(t[i - 1]))
    IN  [k \in 1..(Len(at) + 1) |->
            SubSeq(t, IF k = 1 THEN 1 ELSE SkipSpace(t, at[k - 1]),
                      IF k <= Len(at) THEN at[k] - 1 ELSE Len(t))]

split_into_paragraphs(text) ==
    LET t == Strip(text)
        parts == BlankLineParas(t)
    IN  IF Len(parts) >= 2 THEN parts ELSE StrippedNonEmpty(SentenceSplit(t))

-----------------------------------------------------------------------------
(* make_chunks_from_paragraphs: the pure pieces *)

\* " ".join(cur) as a sequence of words (also " ".join(cur).split())
RECURSIVE Join(_)
Join(ps) == IF ps = <<>> THEN <<>> ELSE Head(ps) \o Join(Tail(ps))

\* ws[-n:] for n > 0
LastWords(ws, n) == SubSeq(ws, Max(1, Len(ws) - n + 1), Len(ws))

\* word_count(s)
word_count(s) == Len(s)

\* end = min(start + max_words, len(words))
HardSplitEnd(st, n, max_words) == Min(st + max_words, n)

WindowFromStart(ws, st, end) == SubSeq(ws, Max(st, 1), end)
\* words[start:end]
Window(ws, st, end) == SubSeq(ws, st + 1, end)

HardSplitNextSkip(end, n, overlap_words) == IF end < n THEN end + overlap_words ELSE end
HardSplitNextRestart(end, n, overlap_words) == IF end < n THEN 0 ELSE end
\* start = end - overlap_words if end < len(words) else end
HardSplitNext(end, n, overlap_words) == IF end < n THEN end - overlap_words ELSE end

\* the new accumulator after a flush: the last overlap_words words as one pseudo-paragraph
OverlapSeed(c, overlap_words) ==
    IF overlap_words > 0
    THEN LET last_words == LastWords(Join(c), overlap_words)
         IN  IF last_words # <<>> THEN <<last_words>> ELSE <<>>
    ELSE <<>>

\* the packer's accumulator state, with the ghost fields
Acc(c, cw, ch, ca, cc) ==
    [cur |-> c, cur_words |-> cw, chunks |-> ch, carry |-> ca, cur_carry |-> cc]

\* chunks.append(" ".join(cur)) and the overlap carry-over
Flushed(a, c) ==
    LET seed == OverlapSeed(a.cur, c.overlap_words)
        n    == IF seed # <<>> THEN word_count(seed[1]) ELSE 0
    IN  Acc(seed, n, Append(a.chunks, Join(a.cur)), Append(a.carry, a.cur_carry), n)

\* if cur and (cur_words + pw) > max_words: flush
FlushOver(a, pw, c) ==
    IF a.cur # <<>> /\ a.cur_words + pw > c.max_words THEN Flushed(a, c) ELSE a

\* cur.append(p); cur_words += pw
AppendPara(a, p) ==
    [a EXCEPT !.cur = Append(@, p), !.cur_words = @ + word_count(p)]

\* if cur_words >= target_words: flush
FlushTarget(a, c) ==
    IF a.cur_words >= c.target_words THEN Flushed(a, c) ELSE a

\* one iteration of the for loop for a paragraph of at most max_words words
PackStep(a, p, c) == FlushTarget(AppendPara(FlushOver(a, word_count(p), c), p), c)

\* the while loop of the hard split, from window start st
RECURSIVE HardSplit(_, _, _, _)
HardSplit(a, ws, st, c) ==
    IF st < Len(ws)
    THEN LET end == HardSplitEnd(st, Len(ws), c.max_words)
         IN  HardSplit([a EXCEPT !.chunks = Append(@, Window(ws, st, end)),
                                 !.carry = Append(@, IF st > 0 THEN c.overlap_words ELSE 0)],
                       ws, HardSplitNext(end, Len(ws), c.overlap_words), c)
    ELSE a

\* the body of the for loop
ParaStep(a, p, c) ==
    IF p = <<>> THEN a
    ELSE IF word_count(p) > c.max_words THEN HardSplit(a, p, 0, c)
    ELSE PackStep(a, p, c)

RECURSIVE ForParas(_, _, _)
ForParas(a, ps, c) ==
    IF ps = <<>> THEN a ELSE ForParas(ParaStep(a, Head(ps), c), Tail(ps), c)

\* if cur: chunks.append(" ".join(cur))
FinalFlush(a) ==
    IF a.cur # <<>>
    THEN [a EXCEPT !.chunks = Append(@, Join(a.cur)), !.carry = Append(@, a.cur_carry)]
    ELSE a

\* chunks = [clean_text(c) for c in chunks if clean_text(c)]
Cleanup(ch) == SelectSeq(ch, LAMBDA x : x # <<>>)

CleanupCarry(ch, ca) ==
    LET idx == SelectSeq([i \in 1..Len(ch) |-> i], LAMBDA i : ch[i] # <<>>)
    IN  [k \in 1..Len(idx) |-> ca[idx[k]]]

make_chunks_from_paragraphs(ps, c) ==
    Cleanup(FinalFlush(ForParas(Acc(<<>>, 0, <<>>, <<>>, 0), ps, c)).chunks)

-----------------------------------------------------------------------------
(* make_chunks_from_paragraphs, step by step *)

Configs ==
    {c \in [target_words : 1..MaxCfgWords, max_words : 1..MaxCfgWords,
            overlap_words : 0..MaxCfgWords] :
        c.overlap_words < c.target_words /\ c.target_words < c.max_words}

RECURSIVE Offset(_, _)
Offset(lens, k) == IF k = 1 THEN 0 ELSE Offset(lens, k - 1) + lens[k - 1]

\* paragraphs of the given lengths; the words are numbered 1, 2, ... in input order
ParasOf(lens) ==
    [k \in 1..Len(lens) |-> [j \in 1..lens[k] |-> Offset(lens, k) + j]]

ParaInputs ==
    {ParasOf(lens) : lens \in UNION {[1..n -> 0..MaxParaWords] : n \in 0..MaxParas}}

CurAcc == Acc(cur, cur_words, chunks, carry, cur_carry)

SetAcc(a) ==
    /\ cur' = a.cur
    /\ cur_words' = a.cur_words
    /\ chunks' = a.chunks
    /\ carry' = a.carry
    /\ cur_carry' = a.cur_carry

PackStart(ps, c) ==
    /\ paras = ps
    /\ cfg = c
    /\ pi = 1
    /\ cur = <<>>
    /\ cur_words = 0
    /\ chunks = <<>>
    /\ words = <<>>
    /\ start = 0
    /\ carry = <<>>
    /\ cur_carry = 0
    /\ pc = "loop"

NotPack == MainIdle /\ DedupeIdle /\ ParseIdle /\ RagIdle /\ ExtractIdle

InitPack == NotPack /\ \E ps \in ParaInputs, c \in Configs : PackStart(ps, c)

\* p = clean_text(p); if not p: continue
SkipEmpty ==
    /\ pc = "loop" /\ pi <= Len(paras)
    /\ paras[pi] = <<>>
    /\ pi' = pi + 1
    /\ UNCHANGED <<paras, cfg, cur, cur_words, chunks, words, start, carry, cur_carry, pc>>
    /\ UNCHANGED <<mainVars, dedupeVars, parseVars, ragVars, extractVars>>

\* if pw > max_words: words = p.split(); start = 0
HardSplitBegin ==
    /\ pc = "loop" /\ pi <= Len(paras)
    /\ paras[pi] # <<>>
    /\ word_count(paras[pi]) > cfg.max_words
    /\ words' = paras[pi]
    /\ start' = 0
    /\ pc' = "split"
    /\ UNCHANGED <<paras, cfg, pi, cur, cur_words, chunks, carry, cur_carry>>
    /\ UNCHANGED <<mainVars, dedupeVars, parseVars, ragVars, extractVars>>

\* one iteration of: while start < len(words)
HardSplitIter ==
    /\ pc = "split"
    /\ start < Len(words)
    /\ LET end == HardSplitEnd(start, Len(words), cfg.max_words)
       IN  /\ chunks' = Append(chunks, Window(words, start, end))
           /\ carry' = Append(carry, IF start > 0 THEN cfg.overlap_words ELSE 0)
           /\ start' = HardSplitNext(end, Len(words), cfg.overlap_words)
    /\ UNCHANGED <<paras, cfg, pi, cur, cur_words, words, cur_carry, pc>>
    /\ UNCHANGED <<mainVars, dedupeVars, parseVars, ragVars, extractVars>>

\* the while loop ends; continue
HardSplitDone ==
    /\ pc = "split"
    /\ ~(start < Len(words))
    /\ pi' = pi + 1
    /\ pc' = "loop"
    /\ UNCHANGED <<paras, cfg, cur, cur_words, chunks, words, start, carry, cur_carry>>
    /\ UNCHANGED <<mainVars, dedupeVars, parseVars, ragVars, extractVars>>

\* a paragraph of at most max_words words goes through the accumulator
Pack ==
    /\ pc = "loop" /\ pi <= Len(paras)
    /\ paras[pi] # <<>>
    /\ ~(word_count(paras[pi]) > cfg.max_words)
    /\ SetAcc(PackStep(CurAcc, paras[pi], cfg))
    /\ pi' = pi + 1
    /\ UNCHANGED <<paras, cfg, words, start, pc>>
    /\ UNCHANGED <<mainVars, dedupeVars, parseVars, ragVars, extractVars>>

\* after the for loop: the final flush, the cleanup, return chunks
Finish ==
    /\ pc = "loop" /\ pi > Len(paras)
    /\ LET a == FinalFlush(CurAcc)
       IN  /\ chunks' = Cleanup(a.chunks)
           /\ carry' = CleanupCarry(a.chunks, a.carry)
    /\ pc' = "done"
    /\ UNCHANGED <<paras, cfg, pi, cur, cur_words, words, start, cur_carry>>
    /\ UNCHANGED <<mainVars, dedupeVars, parseVars, ragVars, extractVars>>

NextPack ==
    \/ SkipEmpty
    \/ HardSplitBegin
    \/ HardSplitIter
    \/ HardSplitDone
    \/ Pack
    \/ Finish

SpecPack == InitPack /\ [][NextPack]_vars

\* the most paragraphs of the runs followed to their end
TermMaxParas == 1

InitTerm ==
    /\ NotPack
    /\ \E lens \in UNION {[1..n -> 0..MaxParaWords] : n \in 0..TermMaxParas}, c \in Configs :
           PackStart(ParasOf(lens), c)

\* the function is one sequential computation: a step that can be taken is taken
SpecPackFair == InitTerm /\ [][NextPack]_vars /\ WF_vars(NextPack)

\* the defaults of make_chunks_from_paragraphs
DefaultCfg ==
    [target_words |-> TARGET_WORDS, max_words |-> MAX_WORDS, overlap_words |-> OVERLAP_WORDS]

\* one paragraph of n words under the default sizes
InitScenario == NotPack /\ \E n \in 0..ScenarioMaxWords : PackStart(ParasOf(<<n>>), DefaultCfg)

SpecScenario == InitScenario /\ [][NextPack]_vars

\* the step-by-step run returns what the function returns
StepsAgree == pc = "done" => chunks = make_chunks_from_paragraphs(paras, cfg)

-----------------------------------------------------------------------------
(* chunk_parsed_to_jsonl.main *)

\* the most sections of one parsed document
MaxSections == 2
\* the number of words of the long section text
LongWords == 360
\* if not text or len(text) < 80
MIN_TEXT_LEN == 80

SOURCE_A == <<"a">>
SOURCE_B == <<"b">>

H_COOKIE == <<"C", "o", "o", "k", "i", "e", " ", "N", "o", "t", "i", "c", "e">>
H_BLANK == <<" ">>
H_FEES == <<"F", "e", "e", "s">>
H_FEES_UPPER == <<"F", "E", "E", "S", ":">>
Headings == {H_COOKIE, H_BLANK, H_FEES, H_FEES_UPPER}

\* Who can apply? / https://www.example.org/apply / You need a valid passport. The fee is 100 euros. /  / You apply at the local immigration office.
T_OK ==
    <<"W", "h", "o", " ", "c", "a", "n", " ", "a", "p", "p", "l", "y", "?", "\n", "h", "t",
    "t", "p", "s", ":", "/", "/", "w", "w", "w", ".", "e", "x", "a", "m", "p", "l", "e", ".",
    "o", "r", "g", "/", "a", "p", "p", "l", "y", "\n", "Y", "o", "u", " ", "n", "e", "e",
    "d", " ", "a", " ", "v", "a", "l", "i", "d", " ", "p", "a", "s", "s", "p", "o", "r", "t",
    ".", " ", "T", "h", "e", " ", "f", "e", "e", " ", "i", "s", " ", "1", "0", "0", " ", "e",
    "u", "r", "o", "s", ".", "\n", "\n", "Y", "o", "u", " ", "a", "p", "p", "l", "y", " ",
    "a", "t", " ", "t", "h", "e", " ", "l", "o", "c", "a", "l", " ", "i", "m", "m", "i", "g",
    "r", "a", "t", "i", "o", "n", " ", "o", "f", "f", "i", "c", "e", ".">>
\* You need a valid passport. The fee is 100 euros. You apply at the local offices  (79 characters)
T_SHORT ==
    <<"Y", "o", "u", " ", "n", "e", "e", "d", " ", "a", " ", "v", "a", "l", "i", "d", " ",
    "p", "a", "s", "s", "p", "o", "r", "t", ".", " ", "T", "h", "e", " ", "f", "e", "e", " ",
    "i", "s", " ", "1", "0", "0", " ", "e", "u", "r", "o", "s", ".", " ", "Y", "o", "u", " ",
    "a", "p", "p", "l", "y", " ", "a", "t", " ", "t", "h", "e", " ", "l", "o", "c", "a", "l",
    " ", "o", "f", "f", "i", "c", "e", "s">>
\* Follow us on Facebook and Instagram. We post news about the office and its services there.
T_JUNK ==
    <<"F", "o", "l", "l", "o", "w", " ", "u", "s", " ", "o", "n", " ", "F", "a", "c", "e",
    "b", "o", "o", "k", " ", "a", "n", "d", " ", "I", "n", "s", "t", "a", "g", "r", "a", "m",
    ".", " ", "W", "e", " ", "p", "o", "s", "t", " ", "n", "e", "w", "s", " ", "a", "b", "o",
    "u", "t", " ", "t", "h", "e", " ", "o", "f", "f", "i", "c", "e", " ", "a", "n", "d", " ",
    "i", "t", "s", " ", "s", "e", "r", "v", "i", "c", "e", "s", " ", "t", "h", "e", "r", "e",
    ".">>
\* "a a a ... a": LongWords words and no sentence end
T_LONG == [i \in 1..(2 * LongWords - 1) |-> IF i % 2 = 1 THEN "a" ELSE " "]
Texts == {T_OK, T_SHORT, T_JUNK, T_LONG}

\* f"{i:04d}"
RECURSIVE Decimal(_)
Decimal(i) ==
    IF i < 10 THEN <<DigitChars[i + 1]>>
    ELSE Append(Decimal(i \div 10), DigitChars[(i % 10) + 1])
Pad4(i) == [k \in 1..(4 - Len(Decimal(i))) |-> "0"] \o Decimal(i)

\* chunk_id = f"{source_id}__{section_slug}__{i:04d}"
ChunkId(source_id, section_slug, i) ==
    source_id \o <<"_", "_">> \o section_slug \o <<"_", "_">> \o Pad4(i)

\* one section: whether it is kept, and its chunk texts (each kept as its words)
SectionChunks(heading, raw_text) ==
    IF section_is_junk(heading, raw_text)
    THEN [kept |-> FALSE, chunk_texts |-> <<>>]
    ELSE LET t == clean_text(dedupe_paragraphs(strip_inline_junk(raw_text)))
         IN  IF t = <<>> \/ Len(t) < MIN_TEXT_LEN
             THEN [kept |-> FALSE, chunk_texts |-> <<>>]
             ELSE LET ps == split_into_paragraphs(t)
                  IN  [kept |-> TRUE,
                       chunk_texts |->
                           make_chunks_from_paragraphs(
                               [k \in 1..Len(ps) |-> Words(clean_text(ps[k]))], DefaultCfg)]

\* SectionChunks over the sections of the model, worked out once
SectionTable == {<<h, t, SectionChunks(h, t)>> : h \in Headings, t \in Texts}
SectionResult(h, t) == (CHOOSE e \in SectionTable : e[1] = h /\ e[2] = t)[3]

\* the records of one section
Records(source_id, heading, chunk_texts) ==
    [i \in 1..Len(chunk_texts) |->
        [chunk_id |-> ChunkId(source_id, slugify(heading), i),
         source_id |-> source_id,
         section |-> heading,
         text |-> chunk_texts[i]]]

NotMain == PackIdle /\ DedupeIdle /\ ParseIdle /\ RagIdle /\ ExtractIdle

InitMain ==
    /\ NotMain
    /\ parsed_files \in {<<>>, <<SOURCE_A>>, <<SOURCE_B>>, <<SOURCE_A, SOURCE_B>>}
    /\ meta \in {{SOURCE_A, SOURCE_B}, {SOURCE_A}}
    /\ di = 1 /\ si = 0 /\ sec = <<>> /\ chunk_store = <<>>
    /\ total_chunks = 0 /\ skipped_sections = 0 /\ cleaned_sections = 0
    /\ mpc = "start"

\* if not parsed_files: raise RuntimeError
NoParsedFiles ==
    /\ mpc = "start" /\ parsed_files = <<>>
    /\ mpc' = "failed"
    /\ UNCHANGED <<parsed_files, meta, di, si, sec, chunk_store, total_chunks,
                   skipped_sections, cleaned_sections>>
    /\ UNCHANGED <<packVars, dedupeVars, parseVars, ragVars, extractVars>>

\* with open(OUT_PATH, "w") as out
OpenStore ==
    /\ mpc = "start" /\ parsed_files # <<>>
    /\ mpc' = "files"
    /\ UNCHANGED <<parsed_files, meta, di, si, sec, chunk_store, total_chunks,
                   skipped_sections, cleaned_sections>>
    /\ UNCHANGED <<packVars, dedupeVars, parseVars, ragVars, extractVars>>

\* m = meta.get(source_id); if m is None: raise ValueError
MissingMeta ==
    /\ mpc = "files" /\ di <= Len(parsed_files)
    /\ parsed_files[di] \notin meta
    /\ mpc' = "failed"
    /\ UNCHANGED <<parsed_files, meta, di, si, sec, chunk_store, total_chunks,
                   skipped_sections, cleaned_sections>>
    /\ UNCHANGED <<packVars, dedupeVars, parseVars, ragVars, extractVars>>

\* the next parsed file is loaded
OpenDoc ==
    /\ mpc = "files" /\ di <= Len(parsed_files)
    /\ parsed_files[di] \in meta
    /\ si' = 0
    /\ mpc' = "sections"
    /\ UNCHANGED <<parsed_files, meta, di, sec, chunk_store, total_chunks,
                   skipped_sections, cleaned_sections>>
    /\ UNCHANGED <<packVars, dedupeVars, parseVars, ragVars, extractVars>>

\* one iteration of: for sec in doc.get("sections", [])
ProcessSection ==
    /\ mpc = "sections" /\ si < MaxSections
    /\ \E h \in Headings, t \in Texts :
        LET r == SectionResult(h, t)
        IN  /\ sec' = [heading |-> h, text |-> t]
            /\ IF r.kept
               THEN /\ cleaned_sections' = cleaned_sections + 1
                    /\ chunk_store' = chunk_store \o Records(parsed_files[di], h, r.chunk_texts)
                    /\ total_chunks' = total_chunks + Len(r.chunk_texts)
                    /\ UNCHANGED skipped_sections
               ELSE /\ skipped_sections' = skipped_sections + 1
                    /\ UNCHANGED <<cleaned_sections, chunk_store, total_chunks>>
    /\ si' = si + 1
    /\ UNCHANGED <<parsed_files, meta, di, mpc>>
    /\ UNCHANGED <<packVars, dedupeVars, parseVars, ragVars, extractVars>>

\* the sections of the document are through
EndDoc ==
    /\ mpc = "sections"
    /\ di' = di + 1
    /\ mpc' = "files"
    /\ UNCHANGED <<parsed_files, meta, si, sec, chunk_store, total_chunks,
                   skipped_sections, cleaned_sections>>
    /\ UNCHANGED <<packVars, dedupeVars, parseVars, ragVars, extractVars>>

\* the files are through: the summary is printed
Summary ==
    /\ mpc = "files" /\ di > Len(parsed_files)
    /\ mpc' = "done"
    /\ UNCHANGED <<parsed_files, meta, di, si, sec, chunk_store, total_chunks,
                   skipped_sections, cleaned_sections>>
    /\ UNCHANGED <<packVars, dedupeVars, parseVars, ragVars, extractVars>>

NextMain ==
    \/ NoParsedFiles
    \/ OpenStore
    \/ MissingMeta
    \/ OpenDoc
    \/ ProcessSection
    \/ EndDoc
    \/ Summary

SpecMain == InitMain /\ [][NextMain]_vars

-----------------------------------------------------------------------------
(* dedupe_paragraphs, applied once and twice *)

\* the longest text
MaxTextLen == 8

DedupeChars == {"a", "A", " ", "\n"}

InitDedupe ==
    /\ PackIdle /\ MainIdle /\ ParseIdle /\ RagIdle /\ ExtractIdle
    /\ dd_text \in UNION {[1..n -> DedupeChars] : n \in 0..MaxTextLen}
    /\ once = <<>> /\ twice = <<>>
    /\ dpc = "call"

ApplyDedupe ==
    /\ dpc = "call"
    /\ once' = dedupe_paragraphs(dd_text)
    /\ twice' = dedupe_paragraphs(dedupe_paragraphs(dd_text))
    /\ dpc' = "done"
    /\ UNCHANGED dd_text
    /\ UNCHANGED <<packVars, mainVars, parseVars, ragVars, extractVars>>

NextDedupe == ApplyDedupe

SpecDedupe == InitDedupe /\ [][NextDedupe]_vars

-----------------------------------------------------------------------------
(* parse_html_to_json.main *)

\* the most rows of sources.csv
MaxRows == 3

DT_WEBPAGE == <<"w", "e", "b", "p", "a", "g", "e">>
DT_WEBPAGE_CAPITAL == <<"W", "e", "b", "p", "a", "g", "e">>
DT_PDF == <<"p", "d", "f">>
DocTypes == {DT_WEBPAGE, DT_WEBPAGE_CAPITAL, DT_PDF}

RowSourceIds == {SOURCE_A, SOURCE_B}

\* a file of the raw HTML store: it is there and parses, it is not there, or it
\* is there and parsing it raises
RawStates == {"html", "missing", "unparsable"}

\* how the call parse_one_html(source_id, url, title) ends
parse_one_html(store, source_id) ==
    IF store[source_id] = "missing"
    THEN [raised |-> TRUE, error |-> "FileNotFoundError"]
    ELSE IF store[source_id] = "unparsable"
    THEN [raised |-> TRUE, error |-> "Exception"]
    ELSE [raised |-> FALSE, error |-> ""]

AfterExceptionAbort == "aborted"
\* except Exception as e: print(...); the for loop goes on
AfterException == "rows"

\* html_df = df[df["document_type"].astype(str).str.lower() == "webpage"]
WebpageRows(rs) == SelectSeq(rs, LAMBDA r : lower(r.document_type) = DT_WEBPAGE)

InitParse ==
    /\ PackIdle /\ MainIdle /\ DedupeIdle /\ RagIdle /\ ExtractIdle
    /\ columns_ok \in BOOLEAN
    /\ rows \in UNION {[1..n -> [source_id : RowSourceIds, document_type : DocTypes]] :
                          n \in 0..MaxRows}
    /\ raw \in [RowSourceIds -> RawStates]
    /\ html_df = <<>> /\ ri = 0 /\ parsed_store = {} /\ log = <<>>
    /\ ppc = "start"

\* if missing: raise ValueError
MissingColumns ==
    /\ ppc = "start" /\ ~columns_ok
    /\ ppc' = "config_error"
    /\ UNCHANGED <<columns_ok, rows, raw, html_df, ri, parsed_store, log>>
    /\ UNCHANGED <<packVars, mainVars, dedupeVars, ragVars, extractVars>>

SelectWebpages ==
    /\ ppc = "start" /\ columns_ok
    /\ html_df' = WebpageRows(rows)
    /\ ri' = 1
    /\ ppc' = "rows"
    /\ UNCHANGED <<columns_ok, rows, raw, parsed_store, log>>
    /\ UNCHANGED <<packVars, mainVars, dedupeVars, ragVars, extractVars>>

\* the try block runs through: the parsed document is written, [OK] is printed
RowParsed ==
    /\ ppc = "rows" /\ ri <= Len(html_df)
    /\ ~parse_one_html(raw, html_df[ri].source_id).raised
    /\ parsed_store' = parsed_store \cup {html_df[ri].source_id}
    /\ log' = Append(log, [kind |-> "OK", source_id |-> html_df[ri].source_id])
    /\ ri' = ri + 1
    /\ UNCHANGED <<columns_ok, rows, raw, html_df, ppc>>
    /\ UNCHANGED <<packVars, mainVars, dedupeVars, ragVars, extractVars>>

\* parse_one_html raises: [FAIL] is printed
RowFailed ==
    /\ ppc = "rows" /\ ri <= Len(html_df)
    /\ parse_one_html(raw, html_df[ri].source_id).raised
    /\ log' = Append(log, [kind |-> "FAIL", source_id |-> html_df[ri].source_id])
    /\ ri' = ri + 1
    /\ ppc' = AfterException
    /\ UNCHANGED <<columns_ok, rows, raw, html_df, parsed_store>>
    /\ UNCHANGED <<packVars, mainVars, dedupeVars, ragVars, extractVars>>

BatchDone ==
    /\ ppc = "rows" /\ ri > Len(html_df)
    /\ ppc' = "done"
    /\ UNCHANGED <<columns_ok, rows, raw, html_df, ri, parsed_store, log>>
    /\ UNCHANGED <<packVars, mainVars, dedupeVars, ragVars, extractVars>>

NextParse ==
    \/ MissingColumns
    \/ SelectWebpages
    \/ RowParsed
    \/ RowFailed
    \/ BatchDone

SpecParse == InitParse /\ [][NextParse]_vars

-----------------------------------------------------------------------------
(* parse_html_to_json.extract_sections *)

\* the most elements of the container
MaxNodes == 3

HEADING_TAGS == {"h1", "h2", "h3"}
TEXT_TAGS == {"p", "li", "blockquote", "td", "th", "dt", "dd"}
\* if txt and len(txt) >= 5
MIN_BLOCK_LEN == 5

BOX_HEADING == <<"c", "-", "s", "e", "r", "v", "i", "c", "e", "-", "b", "o", "x", "_", "_", "h", "e", "a", "d", "i", "n", "g">>
BOX == <<"c", "-", "s", "e", "r", "v", "i", "c", "e", "-", "b", "o", "x">>
BOX_BODY == <<"c", "-", "s", "e", "r", "v", "i", "c", "e", "-", "b", "o", "x", "_", "_", "b", "o", "d", "y">>
TITLE == <<"t", "i", "t", "l", "e">>
MAIN == <<"m", "a", "i", "n">>

\* the elements a container is made of: tag, class attribute, and the string
\* the element holds itself ("none", or "short"/"long" made distinct by position)
ElementSorts ==
    [tag : {"div"}, class : {<<BOX>>, <<BOX_BODY>>}, own : {"none"}]
    \cup [tag : {"h2"}, class : {<<>>}, own : {"none", "short"}]
    \cup [tag : {"h2"}, class : {<<TITLE, BOX_HEADING>>}, own : {"short"}]
    \cup [tag : {"p"}, class : {<<>>}, own : {"short", "long"}]

\* the string of the element at position i
OwnText(own, i) ==
    IF own = "none" THEN <<>>
    ELSE IF own = "short" THEN <<"H", DigitChars[i + 1]>>
    ELSE <<"T", "e", "x", "t", " ", DigitChars[i + 1]>>

\* nesting depths of a tree in document order
DepthSeqs(n) ==
    {ds \in [1..n -> 1..n] : \A i \in 1..n : ds[i] <= (IF i = 1 THEN 1 ELSE ds[i - 1] + 1)}

\* a container: its elements in document order (container.descendants)
ContainerOf(ss, ds) ==
    [i \in 1..Len(ss) |-> [tag |-> ss[i].tag, class |-> ss[i].class,
                           text |-> OwnText(ss[i].own, i), depth |-> ds[i]]]

\* the ancestors of element i inside the container
Ancestors(c, i) ==
    {j \in 1..(i - 1) : \A k \in (j + 1)..i : c[k].depth > c[j].depth}
\* element i and its descendants, in document order
Subtree(c, i) ==
    SelectSeq(Idx(c), LAMBDA k : k >= i /\ \A m \in (i + 1)..k : c[m].depth > c[i].depth)

\* el.get_text(" ", strip=True)
get_text(c, i) ==
    LET ks == Subtree(c, i)
    IN  JoinWith(StrippedNonEmpty([n \in 1..Len(ks) |-> c[ks[n]].text]), <<" ">>)
\* container.get_text(" ", strip=True)
container_text(c) == JoinWith(StrippedNonEmpty([n \in 1..Len(c) |-> c[n].text]), <<" ">>)

\* l in s
Contains(s, l) == \E i \in 1..(Len(s) - Len(l) + 1) : SubSeq(s, i, i + Len(l) - 1) = l
\* re.compile(r"\bl\b").search(s)
SearchWordExact(s, l) ==
    \E i \in 1..(Len(s) - Len(l) + 1) :
        /\ SubSeq(s, i, i + Len(l) - 1) = l
        /\ WordBoundary(s, i) /\ WordBoundary(s, i + Len(l))

\* class_=re.compile(...): one of the classes matches, or the whole attribute does
ClassMatches(class, l) ==
    \/ \E n \in 1..Len(class) : SearchWordExact(class[n], l)
    \/ class # <<>> /\ SearchWordExact(JoinWith(class, <<" ">>), l)

is_service_box_heading_class_only(c, i) ==
    Contains(Strip(JoinWith(c[i].class, <<" ">>)), BOX_HEADING)
is_service_box_heading(c, i) ==
    \/ Contains(Strip(JoinWith(c[i].class, <<" ">>)), BOX_HEADING)
    \/ \E j \in Ancestors(c, i) : c[j].tag = "div" /\ ClassMatches(c[j].class, BOX)

\* flush_current()
flush_current(secs, cur_sec) ==
    LET t == clean_text(JoinWith(cur_sec.text_parts, <<" ">>))
    IN  IF t # <<>> THEN Append(secs, [heading |-> cur_sec.heading, text |-> t]) ELSE secs

\* if not sections: the whole text of the container as one section "main"
WithFallback(c, secs) ==
    IF secs = <<>> /\ clean_text(container_text(c)) # <<>>
    THEN <<[heading |-> MAIN, text |-> clean_text(container_text(c))]>>
    ELSE secs

InitExtract ==
    /\ PackIdle /\ MainIdle /\ DedupeIdle /\ ParseIdle /\ RagIdle
    /\ \E n \in 0..MaxNodes : \E ss \in [1..n -> ElementSorts], ds \in DepthSeqs(n) :
           container = ContainerOf(ss, ds)
    /\ el = 1
    /\ sections = <<>>
    /\ current = [heading |-> MAIN, text_parts |-> <<>>]
    /\ xpc = "walk"

\* a tag that is neither a heading nor a text block
OtherElement ==
    /\ xpc = "walk" /\ el <= Len(container)
    /\ container[el].tag \notin HEADING_TAGS \cup TEXT_TAGS
    /\ el' = el + 1
    /\ UNCHANGED <<container, sections, current, xpc>>
    /\ UNCHANGED <<packVars, mainVars, dedupeVars, parseVars, ragVars>>

\* if heading: ... is false
EmptyHeading ==
    /\ xpc = "walk" /\ el <= Len(container)
    /\ container[el].tag \in HEADING_TAGS
    /\ clean_text(get_text(container, el)) = <<>>
    /\ el' = el + 1
    /\ UNCHANGED <<container, sections, current, xpc>>
    /\ UNCHANGED <<packVars, mainVars, dedupeVars, parseVars, ragVars>>

\* current["text_parts"].append(heading)
ServiceBoxHeading ==
    /\ xpc = "walk" /\ el <= Len(container)
    /\ container[el].tag \in HEADING_TAGS
    /\ clean_text(get_text(container, el)) # <<>>
    /\ is_service_box_heading(container, el)
    /\ current' = [current EXCEPT !.text_parts = Append(@, clean_text(get_text(container, el)))]
    /\ el' = el + 1
    /\ UNCHANGED <<container, sections, xpc>>
    /\ UNCHANGED <<packVars, mainVars, dedupeVars, parseVars, ragVars>>

\* flush_current(); current = {"heading": heading, "text_parts": []}
SectionHeading ==
    /\ xpc = "walk" /\ el <= Len(container)
    /\ container[el].tag \in HEADING_TAGS
    /\ clean_text(get_text(container, el)) # <<>>
    /\ ~is_service_box_heading(container, el)
    /\ sections' = flush_current(sections, current)
    /\ current' = [heading |-> clean_text(get_text(container, el)), text_parts |-> <<>>]
    /\ el' = el + 1
    /\ UNCHANGED <<container, xpc>>
    /\ UNCHANGED <<packVars, mainVars, dedupeVars, parseVars, ragVars>>

\* if tag in TEXT_TAGS
TextBlock ==
    /\ xpc = "walk" /\ el <= Len(container)
    /\ container[el].tag \in TEXT_TAGS
    /\ LET txt == clean_text(get_text(container, el))
       IN  current' = IF txt # <<>> /\ Len(txt) >= MIN_BLOCK_LEN
                      THEN [current EXCEPT !.text_parts = Append(@, txt)]
                      ELSE current
    /\ el' = el + 1
    /\ UNCHANGED <<container, sections, xpc>>
    /\ UNCHANGED <<packVars, mainVars, dedupeVars, parseVars, ragVars>>

\* after the loop: flush_current(), the fallback, return sections
ReturnSections ==
    /\ xpc = "walk" /\ el > Len(container)
    /\ sections' = WithFallback(container, flush_current(sections, current))
    /\ xpc' = "done"
    /\ UNCHANGED <<container, el, current>>
    /\ UNCHANGED <<packVars, mainVars, dedupeVars, parseVars, ragVars>>

NextExtract ==
    \/ OtherElement
    \/ EmptyHeading
    \/ ServiceBoxHeading
    \/ SectionHeading
    \/ TextBlock
    \/ ReturnSections

SpecExtract == InitExtract /\ [][NextExtract]_vars

-----------------------------------------------------------------------------
(* rag_call: retrieve.search, then answer_llm.answer_question *)

\* the most records of the index
MaxIndex == 2
\* retrieve.search(question, top_k=8)
TOP_K == 8
\* r["text"][:1200]
LLM_TEXT_MAX == 1200

FALLBACK == "I don't know."
Replies == {FALLBACK, "The immigration office.", "<think>not in the text</think>I don't know."}
Statuses == {200, 500}

\* a text longer than rag_call passes on
OverlongText == [i \in 1..(LLM_TEXT_MAX + 1) |-> "x"]

\* the metadata store of an index of n records
MetaOf(n) ==
    [i \in 1..n |-> [chunk_id |-> i, text |-> IF i % 2 = 1 THEN T_OK ELSE OverlongText]]

\* ids[0] of index.search(q, top_k): distinct ids of the index, then -1
SearchIds(n) ==
    {s \o [i \in 1..(TOP_K - Len(s)) |-> -1] :
        s \in {x \in UNION {[1..k -> 0..(n - 1)] : k \in 0..Min(n, TOP_K)} :
                  \A a \in 1..Len(x), b \in 1..Len(x) : a # b => x[a] # x[b]}}

\* retrieve.search: the hits that are not -1, with their rank
search(store, ids) ==
    LET k == SelectSeq(Idx(ids), LAMBDA r : ids[r] # -1)
    IN  [j \in 1..Len(k) |->
            [text |-> store[ids[k[j]] + 1].text,
             chunk_id |-> store[ids[k[j]] + 1].chunk_id,
             rank |-> k[j]]]

\* chunks_for_llm.append({"text": r["text"][:1200], ...})
ChunksForLlm(rs) ==
    [j \in 1..Len(rs) |->
        [text |-> SubSeq(rs[j].text, 1, Min(Len(rs[j].text), LLM_TEXT_MAX)),
         chunk_id |-> rs[j].chunk_id]]

\* out = r.json()["choices"][0]["message"]["content"]; return out
answer_question(retrieved_chunks, reply) == reply

InitRag ==
    /\ PackIdle /\ MainIdle /\ DedupeIdle /\ ParseIdle /\ ExtractIdle
    /\ \E n \in 0..MaxIndex : index_meta = MetaOf(n) /\ index_ids \in SearchIds(n)
    /\ llm_status \in Statuses
    /\ llm_reply \in Replies
    /\ results = <<>> /\ chunks_for_llm = <<>> /\ called_with = <<>> /\ answer = ""
    /\ rpc = "start"

\* results = retrieve.search(question, top_k=8)
RetrieveSearch ==
    /\ rpc = "start"
    /\ results' = search(index_meta, index_ids)
    /\ rpc' = "searched"
    /\ UNCHANGED <<index_meta, index_ids, llm_status, llm_reply, chunks_for_llm, called_with,
                   answer>>
    /\ UNCHANGED <<packVars, mainVars, dedupeVars, parseVars, extractVars>>

BuildChunks ==
    /\ rpc = "searched"
    /\ chunks_for_llm' = ChunksForLlm(results)
    /\ rpc' = "built"
    /\ UNCHANGED <<index_meta, index_ids, llm_status, llm_reply, results, called_with, answer>>
    /\ UNCHANGED <<packVars, mainVars, dedupeVars, parseVars, extractVars>>

\* answer_question is called and the endpoint answers with status 200
AnswerReturned ==
    /\ rpc = "built" /\ llm_status = 200
    /\ called_with' = Append(called_with, chunks_for_llm)
    /\ answer' = answer_question(chunks_for_llm, llm_reply)
    /\ rpc' = "answered"
    /\ UNCHANGED <<index_meta, index_ids, llm_status, llm_reply, results, chunks_for_llm>>
    /\ UNCHANGED <<packVars, mainVars, dedupeVars, parseVars, extractVars>>

\* answer_question is called and the endpoint fails: r.raise_for_status()
AnswerRaised ==
    /\ rpc = "built" /\ llm_status # 200
    /\ called_with' = Append(called_with, chunks_for_llm)
    /\ rpc' = "error"
    /\ UNCHANGED <<index_meta, index_ids, llm_status, llm_reply, results, chunks_for_llm,
                   answer>>
    /\ UNCHANGED <<packVars, mainVars, dedupeVars, parseVars, extractVars>>

\* print(answer)
PrintAnswer ==
    /\ rpc = "answered"
    /\ rpc' = "done"
    /\ UNCHANGED <<index_meta, index_ids, llm_status, llm_reply, results, chunks_for_llm,
                   called_with, answer>>
    /\ UNCHANGED <<packVars, mainVars, dedupeVars, parseVars, extractVars>>

NextRag ==
    \/ RetrieveSearch
    \/ BuildChunks
    \/ AnswerReturned
    \/ AnswerRaised
    \/ PrintAnswer

SpecRag == InitRag /\ [][NextRag]_vars

-----------------------------------------------------------------------------
(* Properties of make_chunks_from_paragraphs *)

ChunkIdx == 1..Len(chunks)

\* the indices of the chunks holding a word of paragraph k
ChunksOf(k) ==
    {i \in ChunkIdx : \E j \in 1..Len(chunks[i]), m \in 1..Len(paras[k]) :
                          chunks[i][j] = paras[k][m]}

FirstChunk(k) == CHOOSE i \in ChunksOf(k) : \A x \in ChunksOf(k) : i <= x

\* chunk i without its carried-over prefix
Fresh(i) == SubSeq(chunks[i], carry[i] + 1, Len(chunks[i]))

FreshWords == Join([i \in ChunkIdx |-> Fresh(i)])

\* C1: every chunk returned has at most max_words words, also a chunk built
\* from an accumulator seeded with overlap words before a paragraph of at
\* most max_words words was appended.
C1_ChunksWithinMax ==
    pc = "done" => \A i \in ChunkIdx : word_count(chunks[i]) <= cfg.max_words

\* C3: when more than one chunk is returned, the last k words of each chunk
\* are the first k words of the next, k = min(overlap_words, its word count).
C3_AdjacentOverlap ==
    (pc = "done" /\ Len(chunks) > 1) =>
        \A i \in 1..(Len(chunks) - 1) :
            LET k == Min(cfg.overlap_words, word_count(chunks[i]))
            IN  /\ word_count(chunks[i + 1]) >= k
                /\ LastWords(chunks[i], k) = SubSeq(chunks[i + 1], 1, k)

\* C4: paragraph order is preserved: the first chunk holding words of an
\* earlier paragraph is not after the first chunk holding words of a later one.
C4_ParagraphOrder ==
    pc = "done" =>
        \A p \in 1..Len(paras), q \in 1..Len(paras) :
            (p < q /\ ChunksOf(p) # {} /\ ChunksOf(q) # {}) =>
                FirstChunk(p) <= FirstChunk(q)

\* C5: no content is dropped: every word occurrence of the input is in some
\* chunk, and the chunks without their carried-over prefixes hold each word
\* occurrence of the input exactly once.
C5_NoContentDropped ==
    pc = "done" =>
        /\ \A k \in 1..Len(paras) : \A m \in 1..Len(paras[k]) :
               \E i \in ChunkIdx : \E j \in 1..Len(chunks[i]) : chunks[i][j] = paras[k][m]
        /\ Len(FreshWords) = Len(Join(paras))
        /\ {FreshWords[n] : n \in 1..Len(FreshWords)} = 1..Len(Join(paras))

\* C5's case: a hard-split paragraph and an accumulator flush with carry-over
\* in one run
C5_Witness ==
    /\ pc = "done"
    /\ \E k \in 1..Len(paras) : word_count(paras[k]) > cfg.max_words
    /\ \E i \in ChunkIdx : carry[i] > 0 /\ carry[i] < cfg.overlap_words + 1
    /\ \E i \in ChunkIdx : carry[i] > 0 /\ word_count(chunks[i]) # cfg.max_words
    /\ Len(chunks) >= 4

Sizes == [i \in ChunkIdx |-> word_count(chunks[i])]

ScenarioC == pc = "done" /\ cfg = DefaultCfg /\ Len(paras) = 1 /\ word_count(paras[1]) = 1200

SharedWords ==
    /\ SubSeq(chunks[1], 441, 500) = SubSeq(chunks[2], 1, 60)
    /\ LastWords(chunks[2], 60) = SubSeq(chunks[3], 1, 60)

\* C6 as stated: one paragraph of 1200 words with MAX_WORDS=500 and
\* OVERLAP_WORDS=60 yields chunks of sizes [500, 500, 260], words 441-500 of
\* chunk 1 being the first 60 of chunk 2 and the last 60 of chunk 2 the first
\* 60 of chunk 3.
C6_Sizes_500_500_260 ==
    ScenarioC => (Sizes = <<500, 500, 260>> /\ SharedWords)

\* C6 amended: the sizes are [500, 500, 320] (the third window starts at word
\* 881 and runs to word 1200); the shared words are as stated.
C6_Sizes_500_500_320 ==
    ScenarioC => (Sizes = <<500, 500, 320>> /\ SharedWords)

C6_Witness == ScenarioC /\ Len(chunks) = 3 /\ carry = <<0, 60, 60>>

-----------------------------------------------------------------------------
(* Properties of chunk_parsed_to_jsonl.main *)

\* C2: after a chunking run over documents with pairwise distinct
\* source_ids, the chunk_ids written to the chunk store are pairwise distinct,
\* also when two sections of a document have headings with the same slug.
C2_ChunkIdsDistinct ==
    mpc = "done" =>
        \A i \in 1..Len(chunk_store), j \in 1..Len(chunk_store) :
            i # j => chunk_store[i].chunk_id # chunk_store[j].chunk_id

\* the headings of the model for which heading_is_junk holds
JunkHeadings == {h \in Headings : heading_is_junk(h)}

\* the headings of the model, and every junk heading pattern taken as a heading
HeadingsAndPatterns == Headings \cup Range(JUNK_HEADING_WORDS) \cup Range(JUNK_HEADING_EXACT)

JunkHeadingMakesJunkSection ==
    \A h \in HeadingsAndPatterns, t \in Texts : heading_is_junk(h) => section_is_junk(h, t)

\* C9: a junk heading makes the section junk whatever its text, and main
\* writes no record for such a section and counts it as skipped.
C9_JunkHeadingSkipped ==
    /\ []JunkHeadingMakesJunkSection
    /\ [][(mpc = "sections" /\ si' = si + 1 /\ sec'.heading \in JunkHeadings) =>
            /\ chunk_store' = chunk_store
            /\ total_chunks' = total_chunks
            /\ cleaned_sections' = cleaned_sections
            /\ skipped_sections' = skipped_sections + 1]_vars

\* C9's case: a section with a junk heading and a text that is kept under
\* another heading has been gone through, after a section that was written
C9_Witness ==
    /\ mpc = "sections" /\ si >= 2
    /\ sec.heading \in JunkHeadings
    /\ sec.heading = H_COOKIE
    /\ sec.text = T_OK
    /\ SectionResult(H_FEES, sec.text).kept
    /\ skipped_sections = 1 /\ total_chunks >= 1

-----------------------------------------------------------------------------
(* Properties of dedupe_paragraphs *)

\* equal case-insensitively after whitespace normalization
SameParagraph(p, q) == Words(lower(p)) = Words(lower(q))

\* the paragraphs that have no equal before them, in order
FirstOccurrences(ps) ==
    LET k == SelectSeq(Idx(ps), LAMBDA i : \A j \in 1..(i - 1) : ~SameParagraph(ps[j], ps[i]))
    IN  [n \in 1..Len(k) |-> ps[k[n]]]

-----------------------------------------------------------------------------
(* Properties of parse_html_to_json.main *)

Failing(source_id) == raw[source_id] # "html"

-----------------------------------------------------------------------------
(* Properties of rag_call *)

\* C8: when retrieval returns no result, answer_question is still called,
\* with an empty chunk sequence, and what it returns is the fallback
\* "I don't know.", whatever the endpoint replies.
C8_EmptyRetrievalFallback ==
    (rpc = "done" /\ results = <<>>) =>
        /\ called_with = <<<<>>>>
        /\ answer = FALLBACK

-----------------------------------------------------------------------------
(* Properties of extract_sections *)

\* element i is a heading of a widget: its class contains
\* c-service-box__heading, or a div of class c-service-box is above it
NonSplitting(c, i) ==
    /\ c[i].tag \in {"h1", "h2", "h3"}
    /\ \/ \E n \in 1..Len(c[i].class) : Contains(c[i].class[n], BOX_HEADING)
       \/ \E j \in Ancestors(c, i) :
              c[j].tag = "div" /\ \E n \in 1..Len(c[j].class) : c[j].class[n] = BOX

HeadingText(c, i) == clean_text(get_text(c, i))

\* the positions of the headings with a text that split, and of those that do not
SplittingAt(c) ==
    SelectSeq(Idx(c), LAMBDA i : c[i].tag \in {"h1", "h2", "h3"} /\ HeadingText(c, i) # <<>>
                                 /\ ~NonSplitting(c, i))
WidgetAt(c) == {i \in 1..Len(c) : NonSplitting(c, i) /\ HeadingText(c, i) # <<>>}

\* "main", then the texts of the splitting headings in document order
SplittingHeadings(c) ==
    <<MAIN>> \o [n \in 1..Len(SplittingAt(c)) |-> HeadingText(c, SplittingAt(c)[n])]

\* the heading of the section that is open when element i is met
OpenHeadingAt(c, i) ==
    LET before == {j \in Range(SplittingAt(c)) : j < i}
    IN  IF before = {} THEN MAIN ELSE HeadingText(c, SetMax(before))

IsSubsequence(a, b) ==
    \E f \in [1..Len(a) -> 1..Len(b)] :
        /\ \A k \in 1..Len(a) : a[k] = b[f[k]]
        /\ \A k \in 1..(Len(a) - 1) : f[k] < f[k + 1]

SectionHeadings == [k \in 1..Len(sections) |-> sections[k].heading]

WidgetHeadingsFolded ==
    /\ xpc \in {"walk", "done"} =>
           IsSubsequence(SectionHeadings, SplittingHeadings(container))
    /\ xpc = "walk" => current.heading = OpenHeadingAt(container, el)
    /\ xpc = "done" =>
           \A i \in WidgetAt(container) :
               \E k \in 1..Len(sections) :
                   /\ sections[k].heading = OpenHeadingAt(container, i)
                   /\ Contains(sections[k].text, HeadingText(container, i))

\* C11: a widget heading never becomes the heading of a section and never
\* flushes the open section: the step that meets it appends its text to the
\* open section's text parts; the headings of the sections are "main" and
\* texts of splitting headings, in document order, and the section that was
\* open when a widget heading was met holds that heading's text.
C11_WidgetHeadingsNeverSplit ==
    /\ []WidgetHeadingsFolded
    /\ [][(xpc = "walk" /\ el \in WidgetAt(container)) =>
            /\ sections' = sections
            /\ current'.heading = current.heading
            /\ current'.text_parts =
                   Append(current.text_parts, HeadingText(container, el))]_vars

\* C11's case: a heading without the widget class inside a service box div,
\* met while the section of a splitting heading is open, ends up as that
\* section's text
C11_Witness ==
    /\ xpc = "done"
    /\ \E i \in WidgetAt(container) :
           /\ container[i].class = <<>>
           /\ OpenHeadingAt(container, i) \notin {MAIN, HeadingText(container, i)}
           /\ sections = <<[heading |-> OpenHeadingAt(container, i),
                            text |-> HeadingText(container, i)]>>

-----------------------------------------------------------------------------
(* Termination of make_chunks_from_paragraphs *)

\* the words of the paragraph being split that some chunk holds
Covered == {w \in Range(words) : \E i \in ChunkIdx : w \in Range(chunks[i])}

\* C12: under every configuration overlap < target < max the function
\* terminates: each iteration of the hard-split loop moves the window start
\* forward, the loop is left only when all words of the paragraph are in
\* windows, and the run reaches its return with finitely many chunks.
C12_Terminates ==
    /\ <>(pc = "done")
    /\ [][HardSplitIter => (start < start' /\ start' <= Len(words))]_vars
    /\ [][HardSplitDone => (start = Len(words) /\ Covered = Range(words))]_vars

\* C12's case: a paragraph of more than max_words words was split into three
\* windows or more, with an overlap, and the function has returned
C12_Witness ==
    /\ pc = "done"
    /\ cfg.overlap_words > 0
    /\ \E k \in 1..Len(paras) :
           /\ word_count(paras[k]) > cfg.max_words
           /\ Cardinality({i \in ChunkIdx : Range(chunks[i]) \subseteq Range(paras[k])}) >= 3

-----------------------------------------------------------------------------
(* Chunks of carried-over words only *)

\* C13: no returned chunk is made of carried-over words only: every
\* returned chunk holds a word occurrence that no earlier chunk holds.
C13_NoOverlapOnlyChunk ==
    pc = "done" =>
        \A i \in ChunkIdx :
            \E j \in 1..Len(chunks[i]) :
                \A k \in 1..(i - 1) : chunks[i][j] \notin Range(chunks[k])

====
